---- MODULE Spec2Model ----
(***************************************************************************)
(* Contiguous memory allocator (src/contiguous_memory_allocator.c, the     *)
(* full program of lines 178-536): a singly linked list of blocks behind a *)
(* dummy head whose availableSpace field is the free-space accumulator.    *)
(* One action per command of the command loop of main.                     *)
(***************************************************************************)
EXTENDS Integers, Sequences, FiniteSets, TLC

\* Largest initial memory size given at startup.
MaxMem == 4
\* Largest number of C commands in one session: every compaction leaves the
\* occupied blocks at their old addresses, so the addresses reachable grow
\* with the number of compactions.
MaxCompactions == 1
\* Largest number of RQ commands with a size <= 0 that are carried out in one
\* session: each can enlarge the FREE blocks, so sizes grow with their number.
MaxNonPositive == 1

FREE_LABEL == "FREE"
INT_MAX == 2147483647
INT_MIN == (-2147483647) - 1

\* Process identifiers read by sscanf("%2s"): at most two characters, so
\* never the four-character FREE_LABEL.
Pids == {"p1", "p2", "p3"}
\* Strategy tokens read by sscanf("%1s"); "Z" stands for any other token.
Algos == {"F", "B", "W", "Z"}
\* Sizes read by sscanf("%d"): the engine's precondition is size > 0 ...
Sizes == 1..MaxMem
\* ... but the command loop passes every integer on.
NonPositiveSizes == {-1, 0}

VARIABLES
    dummyHead,          \* dummyHead: [processId, availableSpace]
    blocks,             \* the list dummyHead->next, ->next, ... in list order
    lastAddressSpace,   \* maximum address (initial memory size - 1)
    compactions,        \* number of C commands executed so far
    nonPositive         \* number of RQ commands with size <= 0 carried out so far

vars == <<dummyHead, blocks, lastAddressSpace, compactions, nonPositive>>

Node(pid, start, end, space) ==
    [processId |-> pid, startAddress |-> start, endAddress |-> end,
     availableSpace |-> space]

\* What a function of the program leaves behind: the dummy head (accumulator),
\* the list, and the kind of message it printed.
Result(dh, list, msg) == [dummyHead |-> dh, blocks |-> list, output |-> msg]

InsertAfter(list, i, node) ==
    SubSeq(list, 1, i) \o <<node>> \o SubSeq(list, i + 1, Len(list))

RemoveAt(list, i) ==
    SubSeq(list, 1, i - 1) \o SubSeq(list, i + 1, Len(list))

(***************************************************************************)
(* createFreeBlock: current->next is list[i], the block just allocated.    *)
(***************************************************************************)
createFreeBlock(list, i, leftoverSpace) ==
    LET start == list[i].endAddress + 1
        end0  == start + leftoverSpace - 1
        end   == IF end0 > lastAddressSpace THEN lastAddressSpace ELSE end0
    IN  InsertAfter(list, i, Node(FREE_LABEL, start, end, leftoverSpace))

(***************************************************************************)
(* mergeFreeBlocks: the walk starts AT dummyHead, whose processId the      *)
(* program never writes.  chain[1] is the dummy head, chain[k+1] is        *)
(* blocks[k]; c is the index of `current`.                                 *)
(***************************************************************************)
RECURSIVE mergeWalk(_, _)
mergeWalk(chain, c) ==
    IF c >= Len(chain) THEN chain
    ELSE IF chain[c].processId = FREE_LABEL /\ chain[c + 1].processId = FREE_LABEL
         THEN mergeWalk(
                RemoveAt([chain EXCEPT
                            ![c].endAddress = chain[c + 1].endAddress,
                            ![c].availableSpace = chain[c].availableSpace
                                                  + chain[c + 1].availableSpace],
                         c + 1),
                c)
         ELSE mergeWalk(chain, c + 1)

\* The dummy head as a node of the chain; its addresses are never read.
DummyNode(dh) == Node(dh.processId, 0, 0, dh.availableSpace)

\* Faulty variant of the walk: `current` moves on after a merge too, so the merged
\* block is never compared with the block that now follows it.
RECURSIVE mergeWalkMovingOn(_, _)
mergeWalkMovingOn(chain, c) ==
    IF c >= Len(chain) THEN chain
    ELSE IF chain[c].processId = FREE_LABEL /\ chain[c + 1].processId = FREE_LABEL
         THEN mergeWalkMovingOn(
                RemoveAt([chain EXCEPT
                            ![c].endAddress = chain[c + 1].endAddress,
                            ![c].availableSpace = chain[c].availableSpace
                                                  + chain[c + 1].availableSpace],
                         c + 1),
                c + 1)
         ELSE mergeWalkMovingOn(chain, c + 1)

mergeFreeBlocksMovingOn(dh, list) ==
    LET chain == mergeWalkMovingOn(<<DummyNode(dh)>> \o list, 1)
    IN  [dummyHead |-> [dh EXCEPT !.availableSpace = chain[1].availableSpace],
         blocks    |-> Tail(chain)]

\* Faulty variant of the walk: a merge adds the sizes but the assignment to
\* current->endAddress is missing.
RECURSIVE mergeWalkKeepingEnd(_, _)
mergeWalkKeepingEnd(chain, c) ==
    IF c >= Len(chain) THEN chain
    ELSE IF chain[c].processId = FREE_LABEL /\ chain[c + 1].processId = FREE_LABEL
         THEN mergeWalkKeepingEnd(
                RemoveAt([chain EXCEPT
                            ![c].availableSpace = chain[c].availableSpace
                                                  + chain[c + 1].availableSpace],
                         c + 1),
                c)
         ELSE mergeWalkKeepingEnd(chain, c + 1)

mergeFreeBlocksKeepingEnd(dh, list) ==
    LET chain == mergeWalkKeepingEnd(<<DummyNode(dh)>> \o list, 1)
    IN  [dummyHead |-> [dh EXCEPT !.availableSpace = chain[1].availableSpace],
         blocks    |-> Tail(chain)]

mergeFreeBlocks(dh, list) ==
    LET chain == mergeWalk(<<DummyNode(dh)>> \o list, 1)
    IN  [dummyHead |-> [dh EXCEPT !.availableSpace = chain[1].availableSpace],
         blocks    |-> Tail(chain)]

(***************************************************************************)
(* mergeAllFreeMemory: unlink every FREE block, append one FREE block of   *)
(* their total size that ends at lastAddressSpace.                         *)
(***************************************************************************)
RECURSIVE totalFreeOf(_)
totalFreeOf(list) ==
    IF list = <<>> THEN 0
    ELSE (IF Head(list).processId = FREE_LABEL THEN Head(list).availableSpace ELSE 0)
         + totalFreeOf(Tail(list))

\* Faulty variant of mergeAllFreeMemory: the unlinking loop also removes the
\* occupied block that ends at the last address.
mergeAllFreeMemoryUnlinkingLast(dh, list) ==
    LET totalFree == totalFreeOf(list)
        kept      == SelectSeq(list, LAMBDA b : /\ b.processId # FREE_LABEL
                                                /\ b.endAddress < lastAddressSpace)
        freeBlock == Node(FREE_LABEL, lastAddressSpace + 1 - totalFree,
                          lastAddressSpace, totalFree)
    IN  [dummyHead |-> [dh EXCEPT !.availableSpace = totalFree],
         blocks    |-> IF totalFree > 0 THEN Append(kept, freeBlock) ELSE kept]

mergeAllFreeMemory(dh, list) ==
    LET totalFree == totalFreeOf(list)
        kept      == SelectSeq(list, LAMBDA b : b.processId # FREE_LABEL)
        freeBlock == Node(FREE_LABEL, lastAddressSpace + 1 - totalFree,
                          lastAddressSpace, totalFree)
    IN  [dummyHead |-> [dh EXCEPT !.availableSpace = totalFree],
         blocks    |-> IF totalFree > 0 THEN Append(kept, freeBlock) ELSE kept]

(***************************************************************************)
(* processExists                                                           *)
(***************************************************************************)
RECURSIVE findProcess(_, _, _)
findProcess(list, i, processId) ==
    IF i > Len(list) THEN 0
    ELSE IF list[i].processId = processId THEN i
    ELSE findProcess(list, i + 1, processId)

\* Faulty variant of processExists: only the first block of the list is compared.
processExistsFirstOnly(list, processId) ==
    Len(list) >= 1 /\ list[1].processId = processId

processExists(list, processId) == findProcess(list, 1, processId) # 0

(***************************************************************************)
(* The allocation step the three strategies share: list[i] is the chosen   *)
(* block (current->next).                                                  *)
(***************************************************************************)
allocateAt(dh, list, i, processId, spaceRequested) ==
    LET leftoverSpace == list[i].availableSpace - spaceRequested
        taken == [list EXCEPT
                    ![i].processId = processId,
                    ![i].endAddress = list[i].startAddress + spaceRequested - 1,
                    ![i].availableSpace = spaceRequested]
    IN  [dummyHead |-> [dh EXCEPT !.availableSpace = dh.availableSpace - spaceRequested],
         blocks    |-> IF leftoverSpace > 0
                       THEN createFreeBlock(taken, i, leftoverSpace)
                       ELSE taken]

\* First block from index i on that is FREE and has exactly / at least `space`.
\* Faulty variant of scanAtLeast: the size comparison of the loop is dropped,
\* so the first FREE block is taken whatever its size.
RECURSIVE scanAnyFree(_, _, _)
scanAnyFree(list, i, space) ==
    IF i > Len(list) THEN 0
    ELSE IF list[i].processId = FREE_LABEL THEN i
    ELSE scanAnyFree(list, i + 1, space)

RECURSIVE scanAtLeast(_, _, _)
scanAtLeast(list, i, space) ==
    IF i > Len(list) THEN 0
    ELSE IF list[i].processId = FREE_LABEL /\ list[i].availableSpace >= space THEN i
    ELSE scanAtLeast(list, i + 1, space)

RECURSIVE scanEqual(_, _, _)
scanEqual(list, i, space) ==
    IF i > Len(list) THEN 0
    ELSE IF list[i].processId = FREE_LABEL /\ list[i].availableSpace = space THEN i
    ELSE scanEqual(list, i + 1, space)

firstFitChoice(list, spaceRequested) == scanAtLeast(list, 1, spaceRequested)

allocateFirstFit(dh, list, processId, spaceRequested) ==
    LET i == firstFitChoice(list, spaceRequested)
    IN  IF i # 0
        THEN LET r == allocateAt(dh, list, i, processId, spaceRequested)
             IN  Result(r.dummyHead, r.blocks, "Allocation Successful")
        ELSE Result(dh, list, "Not enough space")

\* Faulty variant of smallestFitFrom: the size test is strict, so a FREE block
\* of exactly the requested size is passed over.
RECURSIVE smallestFitFromStrict(_, _, _, _)
smallestFitFromStrict(list, i, spaceRequested, smallestFit) ==
    IF i > Len(list) THEN smallestFit
    ELSE IF /\ list[i].processId = FREE_LABEL
            /\ list[i].availableSpace > spaceRequested
            /\ list[i].availableSpace < smallestFit
         THEN smallestFitFromStrict(list, i + 1, spaceRequested,
                                    list[i].availableSpace)
         ELSE smallestFitFromStrict(list, i + 1, spaceRequested, smallestFit)

\* First loop of allocateBestFit: the running minimum, starting from INT_MAX.
RECURSIVE smallestFitFrom(_, _, _, _)
smallestFitFrom(list, i, spaceRequested, smallestFit) ==
    IF i > Len(list) THEN smallestFit
    ELSE IF /\ list[i].processId = FREE_LABEL
            /\ list[i].availableSpace >= spaceRequested
            /\ list[i].availableSpace < smallestFit
         THEN smallestFitFrom(list, i + 1, spaceRequested, list[i].availableSpace)
         ELSE smallestFitFrom(list, i + 1, spaceRequested, smallestFit)

\* Faulty variant of bestFitChoice: the first block that fits is taken.
bestFitChoiceFirstFound(list, spaceRequested) ==
    scanAtLeast(list, 1, spaceRequested)

bestFitChoice(list, spaceRequested) ==
    scanEqual(list, 1, smallestFitFrom(list, 1, spaceRequested, INT_MAX))

allocateBestFit(dh, list, processId, spaceRequested) ==
    LET i == bestFitChoice(list, spaceRequested)
    IN  IF i # 0
        THEN LET r == allocateAt(dh, list, i, processId, spaceRequested)
             IN  Result(r.dummyHead, r.blocks, "Allocation Successful")
        ELSE Result(dh, list, "Not enough space")

\* First loop of allocateWorstFit: the running maximum, starting from INT_MIN.
RECURSIVE largestFitFrom(_, _, _, _)
largestFitFrom(list, i, spaceRequested, largestFit) ==
    IF i > Len(list) THEN largestFit
    ELSE IF /\ list[i].processId = FREE_LABEL
            /\ list[i].availableSpace >= spaceRequested
            /\ list[i].availableSpace > largestFit
         THEN largestFitFrom(list, i + 1, spaceRequested, list[i].availableSpace)
         ELSE largestFitFrom(list, i + 1, spaceRequested, largestFit)

\* Faulty variant of worstFitChoice: the first block that fits is taken.
worstFitChoiceFirstFound(list, spaceRequested) ==
    scanAtLeast(list, 1, spaceRequested)

worstFitChoice(list, spaceRequested) ==
    scanEqual(list, 1, largestFitFrom(list, 1, spaceRequested, INT_MIN))

allocateWorstFit(dh, list, processId, spaceRequested) ==
    LET i == worstFitChoice(list, spaceRequested)
    IN  IF i # 0
        THEN LET r == allocateAt(dh, list, i, processId, spaceRequested)
             IN  Result(r.dummyHead, r.blocks, "Allocation Successful")
        ELSE Result(dh, list, "Not enough space")

(***************************************************************************)
(* requestMemory, releaseMemory, compactMemory, reportStatus as functions  *)
(* of the state before the command.                                        *)
(***************************************************************************)
\* Faulty variant of requestMemoryResult: the processExists test is missing.
requestMemoryResultUnchecked(dh, list, processId, spaceRequested, algo) ==
    IF algo = "W" THEN allocateWorstFit(dh, list, processId, spaceRequested)
    ELSE IF algo = "B" THEN allocateBestFit(dh, list, processId, spaceRequested)
    ELSE IF algo = "F" THEN allocateFirstFit(dh, list, processId, spaceRequested)
    ELSE Result(dh, list, "Invalid algorithm")

\* Faulty variant of requestMemoryResult: an unrecognised strategy token falls
\* through to First Fit.
requestMemoryResultDefaulting(dh, list, processId, spaceRequested, algo) ==
    IF processExists(list, processId) THEN Result(dh, list, "already exists")
    ELSE IF algo = "W" THEN allocateWorstFit(dh, list, processId, spaceRequested)
    ELSE IF algo = "B" THEN allocateBestFit(dh, list, processId, spaceRequested)
    ELSE allocateFirstFit(dh, list, processId, spaceRequested)

requestMemoryResult(dh, list, processId, spaceRequested, algo) ==
    IF processExists(list, processId) THEN Result(dh, list, "already exists")
    ELSE IF algo = "W" THEN allocateWorstFit(dh, list, processId, spaceRequested)
    ELSE IF algo = "B" THEN allocateBestFit(dh, list, processId, spaceRequested)
    ELSE IF algo = "F" THEN allocateFirstFit(dh, list, processId, spaceRequested)
    ELSE Result(dh, list, "Invalid algorithm")

\* Faulty variant of releaseMemoryResult: the accumulator is credited and the
\* merge runs before the search, so they happen for an unknown pid too.
releaseMemoryResultEager(dh, list, processId) ==
    LET i == findProcess(list, 1, processId)
        credit == IF Len(list) > 0 THEN list[1].availableSpace ELSE 0
    IN  IF i # 0
        THEN LET m == mergeFreeBlocks(
                        [dh EXCEPT !.availableSpace =
                                     dh.availableSpace + list[i].availableSpace],
                        [list EXCEPT ![i].processId = FREE_LABEL])
             IN  Result(m.dummyHead, m.blocks, "Memory released")
        ELSE Result([dh EXCEPT !.availableSpace = dh.availableSpace + credit],
                    list, "not found")

\* Faulty variant of releaseMemoryResult: after a release a request that was
\* refused is tried again, here one byte by First Fit for the least pid of
\* `waiting` that owns no block.
releaseMemoryResultRetrying(dh, list, processId) ==
    LET i == findProcess(list, 1, processId)
    IN  IF i # 0
        THEN LET m == mergeFreeBlocks(
                        [dh EXCEPT !.availableSpace =
                                     dh.availableSpace + list[i].availableSpace],
                        [list EXCEPT ![i].processId = FREE_LABEL])
                 waiting == {q \in {"p1", "p2", "p3"} :
                               q # processId /\ ~processExists(m.blocks, q)}
                 retried == IF waiting = {} THEN "none"
                            ELSE CHOOSE q \in waiting : TRUE
                 again == allocateFirstFit(m.dummyHead, m.blocks, retried, 1)
             IN  IF waiting = {}
                 THEN Result(m.dummyHead, m.blocks, "Memory released")
                 ELSE Result(again.dummyHead, again.blocks, "Memory released")
        ELSE Result(dh, list, "not found")

\* Faulty variant of releaseMemoryResult: the block is credited to the
\* accumulator but its label is not overwritten with FREE_LABEL.
releaseMemoryResultKeepingOwner(dh, list, processId) ==
    LET i == findProcess(list, 1, processId)
    IN  IF i # 0
        THEN LET m == mergeFreeBlocks(
                        [dh EXCEPT !.availableSpace =
                                     dh.availableSpace + list[i].availableSpace],
                        list)
             IN  Result(m.dummyHead, m.blocks, "Memory released")
        ELSE Result(dh, list, "not found")

releaseMemoryResult(dh, list, processId) ==
    LET i == findProcess(list, 1, processId)
    IN  IF i # 0
        THEN LET m == mergeFreeBlocks(
                        [dh EXCEPT !.availableSpace =
                                     dh.availableSpace + list[i].availableSpace],
                        [list EXCEPT ![i].processId = FREE_LABEL])
             IN  Result(m.dummyHead, m.blocks, "Memory released")
        ELSE Result(dh, list, "not found")

\* Faulty variant of compactMemoryResult: only the neighbouring FREE blocks
\* are merged; the FREE blocks that occupied blocks separate stay apart.
compactMemoryResultAdjacentOnly(dh, list) ==
    LET m == mergeFreeBlocks(dh, list)
    IN  Result(m.dummyHead, m.blocks, "Memory compacted")

compactMemoryResult(dh, list) ==
    LET m == mergeFreeBlocks(dh, list)
        a == mergeAllFreeMemory(m.dummyHead, m.blocks)
    IN  Result(a.dummyHead, a.blocks, "Memory compacted")

Apply(r) ==
    /\ dummyHead' = r.dummyHead
    /\ blocks' = r.blocks
    /\ UNCHANGED lastAddressSpace

\* RQ <ProcessID> <Space> <Algorithm>
requestMemory(processId, spaceRequested, algo) ==
    LET r == requestMemoryResult(dummyHead, blocks, processId, spaceRequested, algo)
    IN  /\ Apply(r)
        /\ nonPositive' = IF spaceRequested <= 0 /\ r.output = "Allocation Successful"
                          THEN nonPositive + 1 ELSE nonPositive
        /\ nonPositive' <= MaxNonPositive
        /\ UNCHANGED compactions

\* RL <ProcessID>
releaseMemory(processId) ==
    /\ Apply(releaseMemoryResult(dummyHead, blocks, processId))
    /\ UNCHANGED <<compactions, nonPositive>>

\* C
compactMemory ==
    /\ compactions < MaxCompactions
    /\ Apply(compactMemoryResult(dummyHead, blocks))
    /\ compactions' = compactions + 1
    /\ UNCHANGED nonPositive

\* STAT
\* Faulty variant of reportStatusResult: the traversal advances dummyHead
\* itself instead of `current`, so the list is gone after the report.
reportStatusResultConsuming(dh, list) == Result(dh, <<>>, "Memory Status")

reportStatusResult(dh, list) == Result(dh, list, "Memory Status")

reportStatus ==
    /\ Apply(reportStatusResult(dummyHead, blocks))
    /\ UNCHANGED <<compactions, nonPositive>>

(***************************************************************************)
(* main: the state after construction.  dummyHead comes from malloc and    *)
(* only its availableSpace and next fields are assigned, so the bytes of   *)
(* dummyHead->processId are whatever the heap held: they compare equal to  *)
(* FREE_LABEL or they do not.                                              *)
(***************************************************************************)
\* Faulty variant of InitWith: the accumulator and the size of the initial
\* block are set to the decremented value.
InitWithDecremented(initialMemorySize, heapBytes) ==
    LET initialMemory == initialMemorySize - 1
    IN  /\ initialMemory > 0
        /\ dummyHead = [processId |-> heapBytes, availableSpace |-> initialMemory]
        /\ blocks = <<Node(FREE_LABEL, 0, initialMemory, initialMemory)>>
        /\ lastAddressSpace = initialMemory
        /\ compactions = 0
        /\ nonPositive = 0

InitWith(initialMemorySize, heapBytes) ==
    LET initialMemory == initialMemorySize - 1
    IN  /\ initialMemory > 0
        /\ dummyHead = [processId |-> heapBytes, availableSpace |-> initialMemory + 1]
        /\ blocks = <<Node(FREE_LABEL, 0, initialMemory, initialMemory + 1)>>
        /\ lastAddressSpace = initialMemory
        /\ compactions = 0
        /\ nonPositive = 0

Init ==
    \E initialMemorySize \in 1..MaxMem, heapBytes \in {"", FREE_LABEL} :
        InitWith(initialMemorySize, heapBytes)

\* The same program on a heap that hands out zero-filled memory.
InitZeroHeap ==
    \E initialMemorySize \in 1..MaxMem : InitWith(initialMemorySize, "")

RQ == \E p \in Pids, s \in Sizes, a \in Algos : requestMemory(p, s, a)

RQNonPositive ==
    \E p \in Pids, s \in NonPositiveSizes, a \in Algos : requestMemory(p, s, a)

RL == \E p \in Pids : releaseMemory(p)

C == compactMemory

STAT == reportStatus

\* Commands whose size respects the engine's precondition (size > 0).
Next == RQ \/ RL \/ C \/ STAT

\* Every command line the loop of main passes to the engine.
NextShell == RQ \/ RQNonPositive \/ RL \/ C \/ STAT

Spec == Init /\ [][Next]_vars

SpecShell == Init /\ [][NextShell]_vars

SpecZeroHeap == InitZeroHeap /\ [][Next]_vars

\* Sessions of allocations, releases and status reports only.
NextNoCompact == RQ \/ RL \/ STAT

SpecNoCompact == Init /\ [][NextNoCompact]_vars

SpecNoCompactZeroHeap == InitZeroHeap /\ [][NextNoCompact]_vars

(***************************************************************************)
(* Vocabulary of the properties.                                           *)
(***************************************************************************)
IsFree(b) == b.processId = FREE_LABEL

IsOccupied(b) == b.processId # FREE_LABEL

Capacity == lastAddressSpace + 1

FreeIndices(list) == {i \in 1..Len(list) : IsFree(list[i])}

OccupiedIndices(list) == {i \in 1..Len(list) : IsOccupied(list[i])}

RECURSIVE SumOver(_, _)
SumOver(list, indices) ==
    IF indices = {} THEN 0
    ELSE LET i == CHOOSE k \in indices : TRUE
         IN  list[i].availableSpace + SumOver(list, indices \ {i})

FreeSum(list) == SumOver(list, FreeIndices(list))

OccupiedSum(list) == SumOver(list, OccupiedIndices(list))

Owners(list) == {list[i].processId : i \in OccupiedIndices(list)}

(***************************************************************************)
(* C1 -- I1, partition: after every sequence of RQ (positive size), RL, C  *)
(* and STAT commands the blocks partition the address space exactly: the   *)
(* list is not empty, the first block starts at 0, every block starts at   *)
(* the address right after the end of the block before it (so the starts   *)
(* increase), and the last block ends at lastAddressSpace.                 *)
(***************************************************************************)
C1_Partition ==
    /\ Len(blocks) >= 1
    /\ blocks[1].startAddress = 0
    /\ blocks[Len(blocks)].endAddress = lastAddressSpace
    /\ \A i \in 1..(Len(blocks) - 1) :
          /\ blocks[i + 1].startAddress = blocks[i].endAddress + 1
          /\ blocks[i].startAddress < blocks[i + 1].startAddress

(***************************************************************************)
(* C2 -- I2, no adjacent free blocks: after every RQ, RL or C command no   *)
(* two consecutive blocks of the list are both FREE.                       *)
(***************************************************************************)
C2_NoAdjacentFree ==
    \A i \in 1..(Len(blocks) - 1) : ~(IsFree(blocks[i]) /\ IsFree(blocks[i + 1]))

\* A release has put a FREE block in front of an occupied one, and there is
\* a second FREE block behind it: allocations and a release have acted.
C2_Witness ==
    /\ Len(blocks) >= 3
    /\ \E i \in 1..(Len(blocks) - 2) :
          /\ IsFree(blocks[i])
          /\ IsOccupied(blocks[i + 1])
          /\ IsFree(blocks[i + 2])

(***************************************************************************)
(* C3 -- I3, unique owners: in every reachable state no process identifier *)
(* owns more than one block.                                               *)
(***************************************************************************)
C3_UniqueOwners ==
    \A i, j \in OccupiedIndices(blocks) :
        blocks[i].processId = blocks[j].processId => i = j

\* Every identifier owns a block: later requests can only be duplicates.
C3_Witness == Owners(blocks) = Pids

(***************************************************************************)
(* C4 -- I4, accumulator consistency: in every state reachable by RQ       *)
(* (positive size), RL and C commands dummyHead->availableSpace equals the *)
(* sum of the sizes of all FREE blocks of the list.                        *)
(***************************************************************************)
C4_AccumulatorConsistent == dummyHead.availableSpace = FreeSum(blocks)

(***************************************************************************)
(* C5 -- conservation: after any sequence of allocations and releases the  *)
(* sum of the sizes of the occupied blocks plus the free-space accumulator *)
(* equals the capacity given at startup.                                   *)
(***************************************************************************)
C5_Conservation == OccupiedSum(blocks) + dummyHead.availableSpace = Capacity

(***************************************************************************)
(* Vocabulary of the placement properties.  Fits(list, R) are the FREE     *)
(* blocks that can hold R bytes; PlacedAt(after, i, p, R) says that the    *)
(* list after the request has process p in the block that was blocks[i]:   *)
(* that block now belongs to p, starts where it started and holds R bytes, *)
(* and the blocks before it are as they were.                              *)
(***************************************************************************)
Fits(list, R) == {i \in FreeIndices(list) : list[i].availableSpace >= R}

FreshPids == Pids \ Owners(blocks)

PlacedAt(after, i, p, R) ==
    /\ Len(after) >= i
    /\ after[i].processId = p
    /\ after[i].startAddress = blocks[i].startAddress
    /\ after[i].availableSpace = R
    /\ SubSeq(after, 1, i - 1) = SubSeq(blocks, 1, i - 1)

\* The first block of Fits in list order.
IsFirstInList(i, list, R) ==
    i \in Fits(list, R) /\ \A j \in Fits(list, R) : i <= j

\* The block of Fits at the lowest address.
IsLowestAddress(i, list, R) ==
    i \in Fits(list, R)
    /\ \A j \in Fits(list, R) : list[i].startAddress <= list[j].startAddress

(***************************************************************************)
(* C6 -- First Fit: for a fresh pid and a size R > 0, a request with       *)
(* strategy F places the process in the first FREE block of the list whose *)
(* size is >= R, and that block is the one at the lowest address among the *)
(* FREE blocks whose size is >= R.                                         *)
(***************************************************************************)
C6_FirstFit ==
    \A p \in FreshPids, R \in Sizes :
        Fits(blocks, R) # {}
        => LET res == requestMemoryResult(dummyHead, blocks, p, R, "F")
           IN  /\ res.output = "Allocation Successful"
               /\ \E i \in Fits(blocks, R) :
                   /\ IsFirstInList(i, blocks, R)
                   /\ IsLowestAddress(i, blocks, R)
                   /\ PlacedAt(res.blocks, i, p, R)

\* The part of C6 that speaks of the list order alone.
C6_FirstFitListOrder ==
    \A p \in FreshPids, R \in Sizes :
        Fits(blocks, R) # {}
        => LET res == requestMemoryResult(dummyHead, blocks, p, R, "F")
           IN  /\ res.output = "Allocation Successful"
               /\ \E i \in Fits(blocks, R) :
                   /\ IsFirstInList(i, blocks, R)
                   /\ PlacedAt(res.blocks, i, p, R)

(***************************************************************************)
(* C7 -- Best Fit: for a fresh pid and a size R > 0, a request with        *)
(* strategy B places the process in the FREE block of smallest size among  *)
(* those with size >= R, and among several blocks of that smallest size in *)
(* the one that comes first in the list.                                   *)
(***************************************************************************)
IsBestFit(i, list, R) ==
    /\ i \in Fits(list, R)
    /\ \A j \in Fits(list, R) :
          /\ list[i].availableSpace <= list[j].availableSpace
          /\ list[j].availableSpace = list[i].availableSpace => i <= j

C7_BestFit ==
    \A p \in FreshPids, R \in Sizes :
        Fits(blocks, R) # {}
        => LET res == requestMemoryResult(dummyHead, blocks, p, R, "B")
           IN  /\ res.output = "Allocation Successful"
               /\ \E i \in Fits(blocks, R) :
                   /\ IsBestFit(i, blocks, R)
                   /\ PlacedAt(res.blocks, i, p, R)

\* A request for which best fit and first fit differ: the first FREE block
\* that fits is larger than a later one, and the request succeeds.
C7_Witness ==
    \E p \in FreshPids, R \in Sizes :
        \E i, j \in Fits(blocks, R) :
            /\ i < j
            /\ blocks[j].availableSpace < blocks[i].availableSpace
            /\ requestMemoryResult(dummyHead, blocks, p, R, "B").output
                  = "Allocation Successful"

(***************************************************************************)
(* C8 -- Worst Fit: for a fresh pid and a size R > 0, a request with       *)
(* strategy W places the process in the FREE block of largest size among   *)
(* those with size >= R, and among several blocks of that largest size in  *)
(* the one that comes first in the list.                                   *)
(***************************************************************************)
IsWorstFit(i, list, R) ==
    /\ i \in Fits(list, R)
    /\ \A j \in Fits(list, R) :
          /\ list[i].availableSpace >= list[j].availableSpace
          /\ list[j].availableSpace = list[i].availableSpace => i <= j

C8_WorstFit ==
    \A p \in FreshPids, R \in Sizes :
        Fits(blocks, R) # {}
        => LET res == requestMemoryResult(dummyHead, blocks, p, R, "W")
           IN  /\ res.output = "Allocation Successful"
               /\ \E i \in Fits(blocks, R) :
                   /\ IsWorstFit(i, blocks, R)
                   /\ PlacedAt(res.blocks, i, p, R)

\* A request for which worst fit and first fit differ: the first FREE block
\* that fits is smaller than a later one, and the request succeeds.
C8_Witness ==
    \E p \in FreshPids, R \in Sizes :
        \E i, j \in Fits(blocks, R) :
            /\ i < j
            /\ blocks[j].availableSpace > blocks[i].availableSpace
            /\ requestMemoryResult(dummyHead, blocks, p, R, "W").output
                  = "Allocation Successful"

(***************************************************************************)
(* C9 -- Allocation failure is atomic: when no FREE block has size >= R,   *)
(* a request under each of F, B and W reports failure and leaves the block *)
(* list and the accumulator exactly as they were.                          *)
(***************************************************************************)
C9_FailureAtomic ==
    \A p \in Pids, R \in Sizes \cup NonPositiveSizes, a \in {"F", "B", "W"} :
        Fits(blocks, R) = {}
        => LET res == requestMemoryResult(dummyHead, blocks, p, R, a)
           IN  /\ res.output = IF p \in Owners(blocks) THEN "already exists"
                               ELSE "Not enough space"
               /\ res.blocks = blocks
               /\ res.dummyHead = dummyHead

\* Fragmentation: a fresh pid asks for R bytes, the FREE blocks together hold
\* at least R bytes, no single one does, and every strategy refuses.
C9_Witness ==
    \E p \in FreshPids, R \in Sizes :
        /\ Fits(blocks, R) = {}
        /\ Cardinality(FreeIndices(blocks)) >= 2
        /\ FreeSum(blocks) >= R
        /\ \A a \in {"F", "B", "W"} :
              requestMemoryResult(dummyHead, blocks, p, R, a).output
                 = "Not enough space"

(***************************************************************************)
(* C10 -- Duplicate rejection: a request for a pid that currently owns a   *)
(* block is rejected before any strategy is consulted, whatever the        *)
(* strategy token or the size is, and the state is unchanged.              *)
(***************************************************************************)
C10_DuplicateRejected ==
    \A p \in Owners(blocks), R \in Sizes \cup NonPositiveSizes, a \in Algos :
        requestMemoryResult(dummyHead, blocks, p, R, a)
           = Result(dummyHead, blocks, "already exists")

\* A pid that owns a block asks again while a FREE block could hold the
\* request, and is rejected.
C10_Witness ==
    \E p \in Owners(blocks), R \in Sizes, a \in {"F", "B", "W"} :
        /\ Fits(blocks, R) # {}
        /\ requestMemoryResult(dummyHead, blocks, p, R, a).output
              = "already exists"

(***************************************************************************)
(* C11 -- Release of an unknown process: releaseMemory for a pid that owns *)
(* no block reports process-not-found and leaves the block list and the    *)
(* accumulator unchanged.                                                  *)
(***************************************************************************)
C11_UnknownRelease ==
    \A p \in FreshPids :
        releaseMemoryResult(dummyHead, blocks, p)
           = Result(dummyHead, blocks, "not found")

\* Some process owns a block, some block is FREE, and a pid that owns
\* nothing is released.
C11_Witness ==
    \E p \in FreshPids :
        /\ Owners(blocks) # {}
        /\ FreeIndices(blocks) # {}
        /\ releaseMemoryResult(dummyHead, blocks, p).output = "not found"

(***************************************************************************)
(* C12 -- Unknown strategy: a request by a fresh pid with a strategy token *)
(* other than F, B or W fails and leaves the block list and the            *)
(* accumulator unchanged.                                                  *)
(***************************************************************************)
C12_UnknownStrategy ==
    \A p \in FreshPids, R \in Sizes \cup NonPositiveSizes,
       a \in Algos \ {"F", "B", "W"} :
        requestMemoryResult(dummyHead, blocks, p, R, a)
           = Result(dummyHead, blocks, "Invalid algorithm")

\* A fresh pid asks with an unknown token for bytes that a FREE block could
\* hold, and is refused.
C12_Witness ==
    \E p \in FreshPids, R \in Sizes, a \in Algos \ {"F", "B", "W"} :
        /\ Fits(blocks, R) # {}
        /\ Owners(blocks) # {}
        /\ requestMemoryResult(dummyHead, blocks, p, R, a).output
              = "Invalid algorithm"

(***************************************************************************)
(* C13 -- Merge correctness: releasing a process whose block lies between  *)
(* a FREE predecessor and a FREE successor leaves exactly one FREE block   *)
(* in their place, whose start is the predecessor's start, whose end is    *)
(* the successor's end and whose size is the sum of the three sizes; the   *)
(* blocks before and after are as they were.                               *)
(***************************************************************************)
Sandwiched(i) ==
    /\ i \in 2..(Len(blocks) - 1)
    /\ IsFree(blocks[i - 1])
    /\ IsOccupied(blocks[i])
    /\ IsFree(blocks[i + 1])

C13_MergeCorrect ==
    \A i \in 1..Len(blocks) :
        Sandwiched(i)
        => LET res == releaseMemoryResult(dummyHead, blocks, blocks[i].processId)
               merged == Node(FREE_LABEL,
                              blocks[i - 1].startAddress,
                              blocks[i + 1].endAddress,
                              blocks[i - 1].availableSpace
                                + blocks[i].availableSpace
                                + blocks[i + 1].availableSpace)
           IN  /\ res.output = "Memory released"
               /\ res.blocks = SubSeq(blocks, 1, i - 2) \o <<merged>>
                                 \o SubSeq(blocks, i + 2, Len(blocks))

C13_Witness ==
    \E i \in 1..Len(blocks) :
        /\ Sandwiched(i)
        /\ releaseMemoryResult(dummyHead, blocks, blocks[i].processId).output
              = "Memory released"

(***************************************************************************)
(* Vocabulary of the compaction properties.  Compacted is what             *)
(* compactMemory leaves from the current state; Shape(list) is the         *)
(* sequence of owners and sizes of a list, without its addresses.          *)
(***************************************************************************)
Compacted == compactMemoryResult(dummyHead, blocks)

OccupiedOf(list) == SelectSeq(list, IsOccupied)

Shape(list) ==
    [k \in 1..Len(list) |-> <<list[k].processId, list[k].availableSpace>>]

(***************************************************************************)
(* C14 -- Compaction result (list shape): after compactMemory the list     *)
(* consists of all occupied blocks in the same relative order as before,   *)
(* followed by exactly one FREE block whose size equals the accumulator,   *)
(* or by no FREE block when the accumulator is 0.                          *)
(***************************************************************************)
C14_CompactionShape ==
    LET after == Compacted.blocks
        acc   == Compacted.dummyHead.availableSpace
        occ   == OccupiedOf(blocks)
    IN  IF acc = 0
        THEN Shape(after) = Shape(occ)
        ELSE /\ Len(after) = Len(occ) + 1
             /\ Shape(SubSeq(after, 1, Len(occ))) = Shape(occ)
             /\ IsFree(after[Len(after)])
             /\ after[Len(after)].availableSpace = acc

(***************************************************************************)
(* C15 -- Compaction result (addresses): after compactMemory the occupied  *)
(* blocks cover one contiguous address range starting at address 0, and    *)
(* the single FREE block (if any) starts immediately after the last        *)
(* occupied block.                                                         *)
(***************************************************************************)
C15_CompactionAddresses ==
    LET after == Compacted.blocks
    IN  \A k \in 1..Len(after) :
            after[k].startAddress =
                IF k = 1 THEN 0 ELSE after[k - 1].endAddress + 1

(***************************************************************************)
(* C16 -- Compaction never fails and leaves the accumulator equal to its   *)
(* value before the call.                                                  *)
(***************************************************************************)
C16_CompactionKeepsAccumulator ==
    /\ Compacted.output = "Memory compacted"
    /\ Compacted.dummyHead.availableSpace = dummyHead.availableSpace

(***************************************************************************)
(* C17 -- Idempotence of compaction: running compactMemory twice in a row  *)
(* yields the same block list and accumulator as running it once.          *)
(***************************************************************************)
C17_CompactionIdempotent ==
    LET twice == compactMemoryResult(Compacted.dummyHead, Compacted.blocks)
    IN  /\ twice.blocks = Compacted.blocks
        /\ twice.dummyHead = Compacted.dummyHead

(***************************************************************************)
(* The run of the README: ./allocator 1000, then RQ p1 100 B, RQ p2 50 F,  *)
(* RL p1, C.  The scenario specifications start the program with that      *)
(* capacity and draw the pids and request sizes from those of the run.     *)
(***************************************************************************)
ScenarioCapacity == 1000

ScenarioSizes == {50, 100}

ScenarioPids == {"p1", "p2"}

InitScenario ==
    \E heapBytes \in {"", FREE_LABEL} : InitWith(ScenarioCapacity, heapBytes)

InitScenarioZeroHeap == InitWith(ScenarioCapacity, "")

RQScenario ==
    \E p \in ScenarioPids, s \in ScenarioSizes, a \in Algos :
        requestMemory(p, s, a)

RLScenario == \E p \in ScenarioPids : releaseMemory(p)

NextScenario == RQScenario \/ RLScenario \/ C \/ STAT

SpecScenario == InitScenario /\ [][NextScenario]_vars

SpecScenarioZeroHeap == InitScenarioZeroHeap /\ [][NextScenario]_vars

\* The states of the run, each computed from the one before.
AfterRQp1 == requestMemoryResult(dummyHead, blocks, "p1", 100, "B")

AfterRQp2 ==
    requestMemoryResult(AfterRQp1.dummyHead, AfterRQp1.blocks, "p2", 50, "F")

AfterRLp1 == releaseMemoryResult(AfterRQp2.dummyHead, AfterRQp2.blocks, "p1")

AfterC == compactMemoryResult(AfterRLp1.dummyHead, AfterRLp1.blocks)

\* The state right after startup with capacity 1000.
AtScenarioStart ==
    \E heapBytes \in {"", FREE_LABEL} : InitWith(ScenarioCapacity, heapBytes)

(***************************************************************************)
(* C18 -- End-to-end scenario, allocation and release steps: with capacity *)
(* 1000, RQ p1 100 B occupies addresses 0..99 and leaves accumulator 900;  *)
(* RQ p2 50 F occupies 100..149 and leaves accumulator 850; RL p1 makes    *)
(* 0..99 FREE with accumulator 950 and no merge, the list being FREE, p2,  *)
(* FREE.                                                                   *)
(***************************************************************************)
C18_ScenarioAllocRelease ==
    AtScenarioStart
    => /\ AfterRQp1.output = "Allocation Successful"
       /\ AfterRQp1.blocks[1] = Node("p1", 0, 99, 100)
       /\ AfterRQp1.dummyHead.availableSpace = 900
       /\ AfterRQp2.output = "Allocation Successful"
       /\ AfterRQp2.blocks[2] = Node("p2", 100, 149, 50)
       /\ AfterRQp2.dummyHead.availableSpace = 850
       /\ AfterRLp1.output = "Memory released"
       /\ AfterRLp1.blocks = << Node(FREE_LABEL, 0, 99, 100),
                                Node("p2", 100, 149, 50),
                                Node(FREE_LABEL, 150, 999, 850) >>
       /\ AfterRLp1.dummyHead.availableSpace = 950

(***************************************************************************)
(* C19 -- End-to-end scenario, compaction step: after RQ p1 100 B,         *)
(* RQ p2 50 F and RL p1 on capacity 1000, compaction yields p2 on          *)
(* addresses 0..49 followed by one FREE block covering 50..999, with the   *)
(* accumulator unchanged at 950.                                           *)
(***************************************************************************)
C19_ScenarioCompaction ==
    AtScenarioStart
    => /\ AfterC.output = "Memory compacted"
       /\ AfterC.blocks = << Node("p2", 0, 49, 50),
                             Node(FREE_LABEL, 50, 999, 950) >>
       /\ AfterC.dummyHead.availableSpace = 950

C21_ShellRejectsNonPositive ==
    \A p \in Pids, R \in NonPositiveSizes, a \in Algos :
        LET res == requestMemoryResult(dummyHead, blocks, p, R, a)
        IN  /\ res.output # "Allocation Successful"
            /\ res.blocks = blocks
            /\ res.dummyHead = dummyHead

(***************************************************************************)
(* C22 -- No waiting queue: a request that fails for insufficient space is *)
(* never retried.  A pid that owns no block comes to own one only by a     *)
(* step that is an RQ command for that pid which finds a FREE block large  *)
(* enough; no release, compaction, status report or request of another pid *)
(* gives it a block.                                                       *)
(***************************************************************************)
C22_NoRetry ==
    [][blocks' # blocks
       => \A p \in Pids :
             (p \notin Owners(blocks) /\ p \in Owners(blocks'))
             => \E R \in Sizes \cup NonPositiveSizes, a \in {"F", "B", "W"} :
                   Fits(blocks, R) # {} /\ requestMemory(p, R, a)]_vars

\* A fresh pid whose request for R bytes is refused now under every strategy,
\* while the release of some owner would leave a FREE block of R bytes; after
\* that release the pid still owns nothing.
C22_Witness ==
    \E p \in FreshPids, R \in Sizes, q \in Owners(blocks) :
        LET released == releaseMemoryResult(dummyHead, blocks, q)
        IN  /\ \A a \in {"F", "B", "W"} :
                  requestMemoryResult(dummyHead, blocks, p, R, a).output
                     = "Not enough space"
            /\ Fits(released.blocks, R) # {}
            /\ p \notin Owners(released.blocks)

(***************************************************************************)
(* C23 -- Status is read-only: STAT changes neither the block list nor the *)
(* accumulator, and cannot fail.                                           *)
(***************************************************************************)
C23_StatusReadOnly ==
    LET res == reportStatusResult(dummyHead, blocks)
    IN  /\ res.output = "Memory Status"
        /\ res.blocks = blocks
        /\ res.dummyHead = dummyHead

C23_Witness ==
    /\ Owners(blocks) # {}
    /\ FreeIndices(blocks) # {}
    /\ Len(reportStatusResult(dummyHead, blocks).blocks) >= 3

\* Owners and extents of a list, as STAT prints them.
Printed(list) ==
    [k \in 1..Len(list) |->
        <<list[k].startAddress, list[k].endAddress, list[k].processId>>]

(***************************************************************************)
(* C24 -- README size adjustment: started with initial memory size N the   *)
(* allocator sets up N - 1 bytes of available space (1000 gives 999), so   *)
(* that after RQ p1 100 B STAT reports 899 bytes available with blocks     *)
(* [0 : 99] p1 and [100 : 999] FREE.                                       *)
(***************************************************************************)
C24_ReadmeSizeAdjustment ==
    AtScenarioStart
    => /\ dummyHead.availableSpace = ScenarioCapacity - 1
       /\ AfterRQp1.dummyHead.availableSpace = 899
       /\ Printed(AfterRQp1.blocks)
             = << <<0, 99, "p1">>, <<100, 999, FREE_LABEL>> >>

(***************************************************************************)
(* C25 -- README demo, compaction: after RQ p1 100 B, RQ p2 50 F, RL p1    *)
(* and C on initial size 1000, STAT reports exactly two blocks, FREE at    *)
(* [0 : 949] followed by p2 at [950 : 999]: one FREE chunk that does not   *)
(* overlap the block of p2.                                                *)
(***************************************************************************)
C25_ReadmeCompaction ==
    AtScenarioStart
    => Printed(AfterC.blocks)
          = << <<0, 949, FREE_LABEL>>, <<950, 999, "p2">> >>

(***************************************************************************)
(* C26 -- Split on allocation: when a request of R > 0 bytes is placed in  *)
(* a FREE block of size S that starts at address a, that block becomes     *)
(* owned by the pid with extent exactly R bytes starting at a; if S > R    *)
(* exactly one new FREE block of size S - R is inserted immediately after  *)
(* it, ending where the chosen block ended; if S = R no block is created;  *)
(* every other block is unchanged and the accumulator decreases by R.      *)
(***************************************************************************)
SplitOf(i, p, R) ==
    LET chosen == blocks[i]
        S == chosen.availableSpace
        a == chosen.startAddress
    IN  SubSeq(blocks, 1, i - 1)
        \o << Node(p, a, a + R - 1, R) >>
        \o (IF S > R
            THEN << Node(FREE_LABEL, a + R, chosen.endAddress, S - R) >>
            ELSE << >>)
        \o SubSeq(blocks, i + 1, Len(blocks))

C26_SplitOnAllocation ==
    \A p \in FreshPids, R \in Sizes, alg \in {"F", "B", "W"} :
        LET res == requestMemoryResult(dummyHead, blocks, p, R, alg)
        IN  res.output = "Allocation Successful"
            => /\ \E i \in Fits(blocks, R) : res.blocks = SplitOf(i, p, R)
               /\ res.dummyHead.availableSpace = dummyHead.availableSpace - R

(***************************************************************************)
(* C27 -- Success condition: for a fresh pid and a size R > 0 a request    *)
(* succeeds under First Fit, Best Fit and Worst Fit on exactly the same    *)
(* states: if and only if some FREE block has size >= R.                   *)
(***************************************************************************)
C27_SuccessCondition ==
    \A p \in FreshPids, R \in Sizes, alg \in {"F", "B", "W"} :
        LET res == requestMemoryResult(dummyHead, blocks, p, R, alg)
        IN  /\ (res.output = "Allocation Successful") <=> (Fits(blocks, R) # {})
            /\ res.output \in {"Allocation Successful", "Not enough space"}

\* Some size is refused and another one fits a FREE block exactly.
C27_Witness ==
    \E p \in FreshPids, R1, R2 \in Sizes :
        /\ Fits(blocks, R1) = {}
        /\ \E i \in Fits(blocks, R2) : blocks[i].availableSpace = R2
        /\ Owners(blocks) # {}
        /\ \A alg \in {"F", "B", "W"} :
              /\ requestMemoryResult(dummyHead, blocks, p, R1, alg).output
                    = "Not enough space"
              /\ requestMemoryResult(dummyHead, blocks, p, R2, alg).output
                    = "Allocation Successful"

(***************************************************************************)
(* C28 -- Consistent size convention: in every reachable state every       *)
(* block's size field equals the length of its extent under the            *)
(* end-inclusive convention, size = end - start + 1.                       *)
(***************************************************************************)
C28_SizeConvention ==
    \A k \in 1..Len(blocks) :
        blocks[k].availableSpace
           = blocks[k].endAddress - blocks[k].startAddress + 1

(***************************************************************************)
(* C29 -- Process lifetime: processExists(pid) is true exactly when pid    *)
(* has been successfully allocated and not released since.  It becomes     *)
(* true only by a successful RQ for pid and becomes true by every such RQ; *)
(* it becomes false only by RL pid and becomes false by every RL pid;      *)
(* compaction and STAT never change it; initially it is false.             *)
(***************************************************************************)
ServedOrFreed ==
    /\ \A p \in FreshPids, R \in Sizes, a \in {"F", "B", "W"} :
          Fits(blocks, R) # {}
          => processExists(
                requestMemoryResult(dummyHead, blocks, p, R, a).blocks, p)
    /\ \A p \in Owners(blocks) :
          ~processExists(releaseMemoryResult(dummyHead, blocks, p).blocks, p)
    /\ \A p \in Pids : processExists(blocks, p) <=> p \in Owners(blocks)

C29_Lifetime ==
    /\ \A p \in Pids : ~processExists(blocks, p)
    /\ []ServedOrFreed
    /\ [][blocks' # blocks
          => \A p \in Pids :
             LET before == processExists(blocks, p)
                 after  == processExists(blocks', p)
             IN  /\ (~before /\ after)
                    => \E R \in Sizes \cup NonPositiveSizes, a \in {"F", "B", "W"} :
                          Fits(blocks, R) # {} /\ requestMemory(p, R, a)
                 /\ (before /\ ~after) => releaseMemory(p)
                 /\ (before # after) => ~(compactMemory \/ reportStatus)]_vars

\* A pid that was released asks again and is served.
C29_Witness ==
    \E p \in Owners(blocks), R \in Sizes :
        LET released == releaseMemoryResult(dummyHead, blocks, p)
            again == requestMemoryResult(released.dummyHead, released.blocks,
                                         p, R, "F")
        IN  /\ ~processExists(released.blocks, p)
            /\ again.output = "Allocation Successful"
            /\ processExists(again.blocks, p)

(***************************************************************************)
(* The local-merge variant of the program (src/unnamed/part_000).  Same    *)
(* list behind the same dummy head, but an allocated block ends at         *)
(* start + size, the initial block and the accumulator hold the            *)
(* decremented size, and a release merges at one place only.  Its          *)
(* functions print nothing when they succeed.                              *)
(***************************************************************************)
createFreeBlock_part000(list, i, leftoverSpace) ==
    LET start == list[i].endAddress + 1
        end0  == start + leftoverSpace
        end   == IF end0 > lastAddressSpace THEN lastAddressSpace ELSE end0
    IN  InsertAfter(list, i, Node(FREE_LABEL, start, end, leftoverSpace))

\* mergeFreeBlocks looks at `current` (chain[c]) and its successor only.
\* chain[1] is the dummy head, chain[k+1] is blocks[k].
mergeFreeBlocks_part000(chain, c) ==
    IF /\ chain[c].processId = FREE_LABEL
       /\ c < Len(chain)
       /\ chain[c + 1].processId = FREE_LABEL
    THEN RemoveAt([chain EXCEPT
                     ![c].endAddress = chain[c + 1].endAddress,
                     ![c].availableSpace = chain[c].availableSpace
                                           + chain[c + 1].availableSpace],
                  c + 1)
    ELSE chain

\* The chain as dummy head and list again.
Unchain_part000(chain, msg) ==
    Result([processId |-> chain[1].processId,
            availableSpace |-> chain[1].availableSpace],
           Tail(chain), msg)

\* The allocation step of allocateFirstFit, allocateBestFit and
\* allocateWorstFit: list[i] is the chosen block (current->next).
allocateAt_part000(dh, list, i, processId, spaceRequested) ==
    LET leftoverSpace == list[i].availableSpace - spaceRequested
        taken == [list EXCEPT
                    ![i].processId = processId,
                    ![i].endAddress = list[i].startAddress + spaceRequested,
                    ![i].availableSpace = spaceRequested]
    IN  Result([dh EXCEPT !.availableSpace = dh.availableSpace - spaceRequested],
               IF leftoverSpace > 0
               THEN createFreeBlock_part000(taken, i, leftoverSpace)
               ELSE taken,
               "")

allocateFirstFit_part000(dh, list, processId, spaceRequested) ==
    LET i == scanAtLeast(list, 1, spaceRequested)
    IN  IF i # 0 THEN allocateAt_part000(dh, list, i, processId, spaceRequested)
        ELSE Result(dh, list, "No sufficient space")

allocateBestFit_part000(dh, list, processId, spaceRequested) ==
    LET i == scanEqual(list, 1, smallestFitFrom(list, 1, spaceRequested, INT_MAX))
    IN  IF i # 0 THEN allocateAt_part000(dh, list, i, processId, spaceRequested)
        ELSE Result(dh, list, "No sufficient space")

allocateWorstFit_part000(dh, list, processId, spaceRequested) ==
    LET i == scanEqual(list, 1, largestFitFrom(list, 1, spaceRequested, INT_MIN))
    IN  IF i # 0 THEN allocateAt_part000(dh, list, i, processId, spaceRequested)
        ELSE Result(dh, list, "No sufficient space")

requestMemoryResult_part000(dh, list, processId, spaceRequested, algo) ==
    IF findProcess(list, 1, processId) # 0 THEN Result(dh, list, "already allocated")
    ELSE IF algo = "W" THEN allocateWorstFit_part000(dh, list, processId, spaceRequested)
    ELSE IF algo = "B" THEN allocateBestFit_part000(dh, list, processId, spaceRequested)
    ELSE IF algo = "F" THEN allocateFirstFit_part000(dh, list, processId, spaceRequested)
    ELSE Result(dh, list, "Invalid algorithm")

\* releaseMemory: the walk stops with current->next on the block of the
\* process, so mergeFreeBlocks runs with `current` on its PREDECESSOR, which
\* is the dummy head when the block is the first of the list.
releaseMemoryResult_part000(dh, list, processId) ==
    LET i == findProcess(list, 1, processId)
    IN  IF i # 0
        THEN LET credited == [dh EXCEPT !.availableSpace =
                                          dh.availableSpace + list[i].availableSpace]
                 chain == <<DummyNode(credited)>>
                          \o [list EXCEPT ![i].processId = FREE_LABEL]
             IN  Unchain_part000(mergeFreeBlocks_part000(chain, i), "")
        ELSE Result(dh, list, "not found")

\* compactMemory: `current` walks from the dummy head and stays where it is
\* after a merge.
RECURSIVE compactWalk_part000(_, _)
compactWalk_part000(chain, c) ==
    IF c >= Len(chain) THEN chain
    ELSE IF chain[c].processId = FREE_LABEL /\ chain[c + 1].processId = FREE_LABEL
         THEN compactWalk_part000(mergeFreeBlocks_part000(chain, c), c)
         ELSE compactWalk_part000(chain, c + 1)

compactMemoryResult_part000(dh, list) ==
    Unchain_part000(compactWalk_part000(<<DummyNode(dh)>> \o list, 1), "")

reportStatusResult_part000(dh, list) == Result(dh, list, "Memory Status")

\* RQ <ProcessID> <Space> <Algorithm>
requestMemory_part000(processId, spaceRequested, algo) ==
    /\ Apply(requestMemoryResult_part000(dummyHead, blocks, processId,
                                         spaceRequested, algo))
    /\ UNCHANGED <<compactions, nonPositive>>

\* RL <ProcessID>
releaseMemory_part000(processId) ==
    /\ Apply(releaseMemoryResult_part000(dummyHead, blocks, processId))
    /\ UNCHANGED <<compactions, nonPositive>>

\* C
compactMemory_part000 ==
    /\ Apply(compactMemoryResult_part000(dummyHead, blocks))
    /\ UNCHANGED <<compactions, nonPositive>>

\* STAT
reportStatus_part000 ==
    /\ Apply(reportStatusResult_part000(dummyHead, blocks))
    /\ UNCHANGED <<compactions, nonPositive>>

\* main: dummyHead->processId is not assigned here either.
InitWith_part000(initialMemorySize, heapBytes) ==
    LET initialMemory == initialMemorySize - 1
    IN  /\ initialMemory > 0
        /\ dummyHead = [processId |-> heapBytes, availableSpace |-> initialMemory]
        /\ blocks = <<Node(FREE_LABEL, 0, initialMemory, initialMemory)>>
        /\ lastAddressSpace = initialMemory
        /\ compactions = 0
        /\ nonPositive = 0

Init_part000 ==
    \E initialMemorySize \in 1..MaxMem, heapBytes \in {"", FREE_LABEL} :
        InitWith_part000(initialMemorySize, heapBytes)

RQ_part000 ==
    \E p \in Pids, s \in Sizes, a \in Algos : requestMemory_part000(p, s, a)

RL_part000 == \E p \in Pids : releaseMemory_part000(p)

C_part000 == compactMemory_part000

STAT_part000 == reportStatus_part000

Next_part000 == RQ_part000 \/ RL_part000 \/ C_part000 \/ STAT_part000

Spec_part000 == Init_part000 /\ [][Next_part000]_vars

\* The blocks lo..hi of the list as one FREE block: the start of the first,
\* the end of the last, the sizes added up.
RECURSIVE SizeOfRun(_, _, _)
SizeOfRun(list, lo, hi) ==
    IF lo > hi THEN 0
    ELSE list[lo].availableSpace + SizeOfRun(list, lo + 1, hi)

Coalesced(list, lo, hi) ==
    SubSeq(list, 1, lo - 1)
    \o <<Node(FREE_LABEL, list[lo].startAddress, list[hi].endAddress,
              SizeOfRun(list, lo, hi))>>
    \o SubSeq(list, hi + 1, Len(list))

NoAdjacentFree(list) ==
    \A k \in 1..(Len(list) - 1) : ~(IsFree(list[k]) /\ IsFree(list[k + 1]))

(***************************************************************************)
(* C30 -- Local-merge variant: after every successful releaseMemory no two *)
(* adjacent blocks of the list are both FREE; in particular, when the      *)
(* successor of the released block is FREE (whether or not its predecessor *)
(* is FREE too), the released block and its FREE neighbours become one     *)
(* FREE block.  Stated for every release the current state allows.         *)
(***************************************************************************)
C30_ReleaseCoalesces ==
    \A p \in Owners(blocks) :
        LET i   == findProcess(blocks, 1, p)
            res == releaseMemoryResult_part000(dummyHead, blocks, p)
            lo  == IF i > 1 /\ IsFree(blocks[i - 1]) THEN i - 1 ELSE i
        IN  /\ NoAdjacentFree(res.blocks)
            /\ (i < Len(blocks) /\ IsFree(blocks[i + 1]))
               => res.blocks = Coalesced(blocks, lo, i + 1)

(***************************************************************************)
(* C32 -- Allocate/release round trip: in every reachable state, a         *)
(* successful requestMemory(pid, R, s) for a fresh pid, any positive R and *)
(* any of the strategies F, B, W, immediately followed by                  *)
(* releaseMemory(pid), gives back exactly the block list (owners, start,   *)
(* end, size, order) and the accumulator of before the request.            *)
(***************************************************************************)
C32_RoundTrip ==
    \A p \in FreshPids, R \in Sizes, alg \in {"F", "B", "W"} :
        LET a == requestMemoryResult(dummyHead, blocks, p, R, alg)
            r == releaseMemoryResult(a.dummyHead, a.blocks, p)
        IN  a.output = "Allocation Successful"
            => /\ r.output = "Memory released"
               /\ r.blocks = blocks
               /\ r.dummyHead = dummyHead

\* Two blocks hold a common address.
Overlap(a, b) ==
    /\ a.startAddress <= b.endAddress
    /\ b.startAddress <= a.endAddress
    /\ a.startAddress <= a.endAddress
    /\ b.startAddress <= b.endAddress

(***************************************************************************)
(* C33 -- No shared addresses: in no state reachable by RQ (positive       *)
(* size), RL and C commands do two blocks owned by different processes     *)
(* hold a common address; this covers the allocations made after a         *)
(* compaction.                                                             *)
(***************************************************************************)
C33_NoSharedAddresses ==
    \A i, j \in OccupiedIndices(blocks) :
        blocks[i].processId # blocks[j].processId
        => ~Overlap(blocks[i], blocks[j])

(***************************************************************************)
(* C34 -- Return to the initial state: in every reachable state in which   *)
(* no process owns a block, the list is exactly one FREE block that starts *)
(* at 0, ends at lastAddressSpace and has the capacity as its size, and    *)
(* the accumulator equals the capacity.                                    *)
(***************************************************************************)
C34_ReturnToInitial ==
    Owners(blocks) = {}
    => /\ blocks = <<Node(FREE_LABEL, 0, lastAddressSpace, Capacity)>>
       /\ dummyHead.availableSpace = Capacity

(***************************************************************************)
(* C35 -- Addresses stay in range: in every state reachable by RQ          *)
(* (positive size), RL and C commands every block of the list satisfies    *)
(* 0 <= start <= end <= lastAddressSpace.                                  *)
(***************************************************************************)
C35_AddressesInRange ==
    \A k \in 1..Len(blocks) :
        /\ 0 <= blocks[k].startAddress
        /\ blocks[k].startAddress <= blocks[k].endAddress
        /\ blocks[k].endAddress <= lastAddressSpace

\* The (owner, size) pairs of the occupied blocks of a list.
OwnerSizes(list) ==
    {<<list[k].processId, list[k].availableSpace>> : k \in OccupiedIndices(list)}

(***************************************************************************)
(* C36 -- Compaction preserves the processes: compactMemory neither adds   *)
(* nor removes an occupied block and changes neither the owner nor the     *)
(* size of one: the number of occupied blocks and the set of their         *)
(* (owner, size) pairs are the same before and after.                      *)
(***************************************************************************)
C36_CompactionKeepsProcesses ==
    /\ Cardinality(OccupiedIndices(Compacted.blocks))
         = Cardinality(OccupiedIndices(blocks))
    /\ OwnerSizes(Compacted.blocks) = OwnerSizes(blocks)

\* Occupied blocks between FREE blocks, so that the compaction rebuilds the
\* list around them.
C36_Witness ==
    /\ Cardinality(Owners(blocks)) >= 2
    /\ Cardinality(FreeIndices(blocks)) >= 2
    /\ Compacted.blocks # blocks
    /\ OwnerSizes(Compacted.blocks) = OwnerSizes(blocks)

(***************************************************************************)
(* C37 -- Release frame: a successful releaseMemory(pid) leaves every      *)
(* block owned by another process in the list with its owner, start, end   *)
(* and size unchanged, adds no occupied block, and increases the           *)
(* accumulator by exactly the size of the released block.                  *)
(***************************************************************************)
C37_ReleaseFrame ==
    \A p \in Owners(blocks) :
        LET i   == findProcess(blocks, 1, p)
            res == releaseMemoryResult(dummyHead, blocks, p)
        IN  /\ res.output = "Memory released"
            /\ OccupiedOf(res.blocks) = OccupiedOf(RemoveAt(blocks, i))
            /\ res.dummyHead.availableSpace
                 = dummyHead.availableSpace + blocks[i].availableSpace

(***************************************************************************)
(* C38 -- Compaction defeats fragmentation: immediately after              *)
(* compactMemory, a request for a fresh pid with a size R such that        *)
(* 1 <= R <= accumulator succeeds under each of the strategies F, B and W, *)
(* even if it was refused before the compaction because no single FREE     *)
(* block was large enough.                                                 *)
(***************************************************************************)
C38_CompactionDefeatsFragmentation ==
    \A p \in Pids \ Owners(Compacted.blocks),
       R \in 1..Compacted.dummyHead.availableSpace,
       alg \in {"F", "B", "W"} :
        requestMemoryResult(Compacted.dummyHead, Compacted.blocks, p, R, alg).output
            = "Allocation Successful"

\* A request that every strategy refuses now and serves after a compaction.
C38_Witness ==
    \E p \in FreshPids, R \in Sizes :
        /\ R <= Compacted.dummyHead.availableSpace
        /\ \A alg \in {"F", "B", "W"} :
              /\ requestMemoryResult(dummyHead, blocks, p, R, alg).output
                   = "Not enough space"
              /\ requestMemoryResult(Compacted.dummyHead, Compacted.blocks,
                                     p, R, alg).output = "Allocation Successful"

(***************************************************************************)
(* The swap-based variant of the program (src/unnamed/part_001, lines      *)
(* 399-761).  The dummy head is labelled "Dummy"; an allocated block ends  *)
(* at start + size; a release merges at the predecessor of the released    *)
(* block; the compaction swaps FREE blocks towards the tail.               *)
(***************************************************************************)
\* Largest initial memory size given to this variant: four bytes are needed
\* for a list of four blocks.
MaxMem_part001 == 5
\* The accumulator only decreases when a block is lost; the commands that
\* would take it below -MaxDeficit_part001 are left out.
MaxDeficit_part001 == 1

DUMMY_LABEL == "Dummy"

\* The loop at the end of createFreeBlock: every node after list[k - 1]
\* is given the addresses that follow its predecessor's.
RECURSIVE readdress_part001(_, _)
readdress_part001(list, k) ==
    IF k > Len(list) THEN list
    ELSE LET start == list[k - 1].endAddress + 1
         IN  readdress_part001(
                [list EXCEPT ![k].startAddress = start,
                             ![k].endAddress = start + list[k].availableSpace],
                k + 1)

\* createFreeBlock: current->next is list[i], the block just allocated.
createFreeBlock_part001(list, i, spaceAllocated, leftoverSpace) ==
    LET start == list[i].endAddress + 1
        end0  == start + leftoverSpace
        end   == IF end0 > lastAddressSpace THEN lastAddressSpace ELSE end0
        newFreeBlock == Node(FREE_LABEL, start, end, leftoverSpace)
        linked == InsertAfter([list EXCEPT ![i].availableSpace = spaceAllocated],
                              i, newFreeBlock)
    IN  IF /\ i + 2 <= Len(linked)
           /\ linked[i + 2].startAddress = newFreeBlock.endAddress + 1
        THEN readdress_part001(linked, i + 2)
        ELSE linked

\* mergeFreeBlocks at `current` = chain[c]; chain[1] is the dummy head and
\* chain[k + 1] is blocks[k].  The second test runs on what the first left.
mergeFreeBlocks_part001(chain, c) ==
    LET first == IF /\ chain[c].processId = FREE_LABEL
                    /\ c < Len(chain)
                    /\ chain[c + 1].processId = FREE_LABEL
                 THEN RemoveAt([chain EXCEPT
                                  ![c].endAddress = chain[c + 1].endAddress,
                                  ![c].availableSpace = chain[c].availableSpace
                                                        + chain[c + 1].availableSpace],
                               c + 1)
                 ELSE chain
    IN  IF /\ c + 2 <= Len(first)
           /\ first[c + 1].processId # FREE_LABEL
           /\ first[c + 2].processId = FREE_LABEL
        THEN RemoveAt([first EXCEPT
                         ![c + 2].startAddress = first[c + 1].startAddress,
                         ![c + 2].availableSpace = first[c + 2].availableSpace
                                                   + first[c + 1].availableSpace],
                      c + 1)
        ELSE first

\* swapNodes at `current` = chain[c]: only called here with c + 2 <= Len(chain).
swapNodes_part001(chain, c) ==
    LET n1     == chain[c + 1]
        n2     == chain[c + 2]
        moved  == [n2 EXCEPT !.startAddress = n1.startAddress,
                             !.endAddress = n1.startAddress + n2.availableSpace]
        pushed == [n1 EXCEPT !.startAddress = moved.endAddress + 1,
                             !.endAddress = moved.endAddress + 1 + n1.availableSpace]
    IN  SubSeq(chain, 1, c) \o <<moved, pushed>> \o SubSeq(chain, c + 3, Len(chain))

Unchain_part001(chain, msg) ==
    Result([processId |-> chain[1].processId,
            availableSpace |-> chain[1].availableSpace],
           Tail(chain), msg)

\* The allocation step the three strategies share; availableSpace of the
\* chosen block is assigned inside createFreeBlock only.
allocateAt_part001(dh, list, i, processId, spaceRequested) ==
    LET leftoverSpace == list[i].availableSpace - spaceRequested
        taken == [list EXCEPT
                    ![i].processId = processId,
                    ![i].endAddress = list[i].startAddress + spaceRequested]
    IN  Result([dh EXCEPT !.availableSpace = dh.availableSpace - spaceRequested],
               IF leftoverSpace > 0
               THEN createFreeBlock_part001(taken, i, spaceRequested, leftoverSpace)
               ELSE taken,
               "")

allocateFirstFit_part001(dh, list, processId, spaceRequested) ==
    LET i == scanAtLeast(list, 1, spaceRequested)
    IN  IF i # 0 THEN allocateAt_part001(dh, list, i, processId, spaceRequested)
        ELSE Result(dh, list, "No sufficient space")

allocateBestFit_part001(dh, list, processId, spaceRequested) ==
    LET i == scanEqual(list, 1, smallestFitFrom(list, 1, spaceRequested, INT_MAX))
    IN  IF i # 0 THEN allocateAt_part001(dh, list, i, processId, spaceRequested)
        ELSE Result(dh, list, "No sufficient space")

allocateWorstFit_part001(dh, list, processId, spaceRequested) ==
    LET i == scanEqual(list, 1, largestFitFrom(list, 1, spaceRequested, INT_MIN))
    IN  IF i # 0 THEN allocateAt_part001(dh, list, i, processId, spaceRequested)
        ELSE Result(dh, list, "No sufficient space")

requestMemoryResult_part001(dh, list, processId, spaceRequested, algo) ==
    IF findProcess(list, 1, processId) # 0 THEN Result(dh, list, "already allocated")
    ELSE IF algo = "W" THEN allocateWorstFit_part001(dh, list, processId, spaceRequested)
    ELSE IF algo = "B" THEN allocateBestFit_part001(dh, list, processId, spaceRequested)
    ELSE IF algo = "F" THEN allocateFirstFit_part001(dh, list, processId, spaceRequested)
    ELSE Result(dh, list, "Invalid algorithm")

\* releaseMemory: processExists leaves `current` on the predecessor of the
\* block of the process (chain[i]; the block itself is chain[i + 1]).
releaseMemoryResult_part001(dh, list, processId) ==
    LET i == findProcess(list, 1, processId)
    IN  IF i # 0
        THEN LET credited == [dh EXCEPT !.availableSpace =
                                          dh.availableSpace + list[i].availableSpace]
                 chain == <<DummyNode(credited)>>
                          \o [list EXCEPT ![i].processId = FREE_LABEL]
             IN  Unchain_part001(mergeFreeBlocks_part001(chain, i), "")
        ELSE Result(dh, list, "not found")

\* compactMemory: the loop with `current` = chain[c].  swapNodes writes
\* through current->next->next without a test: when that pointer is NULL the
\* write goes through a null pointer and the process is killed ("crashed").
RECURSIVE compactWalk_part001(_, _)
compactWalk_part001(chain, c) ==
    IF c >= Len(chain) THEN [chain |-> chain, crashed |-> FALSE]
    ELSE IF \/ /\ chain[c + 1].processId = FREE_LABEL
               /\ c + 2 <= Len(chain)
            \/ /\ chain[c + 1].processId # FREE_LABEL
               /\ chain[c].processId = FREE_LABEL
         THEN IF c + 2 <= Len(chain)
              THEN compactWalk_part001(
                     mergeFreeBlocks_part001(swapNodes_part001(chain, c), c + 1),
                     c + 1)
              ELSE [chain |-> chain, crashed |-> TRUE]
         ELSE compactWalk_part001(chain, c + 1)

compactMemoryResult_part001(dh, list) ==
    LET w == compactWalk_part001(<<DummyNode(dh)>> \o list, 1)
    IN  Unchain_part001(w.chain, IF w.crashed THEN "Segmentation fault" ELSE "")

reportStatusResult_part001(dh, list) == Result(dh, list, "Memory Status")

\* RQ <ProcessID> <Space> <Algorithm>
requestMemory_part001(processId, spaceRequested, algo) ==
    LET r == requestMemoryResult_part001(dummyHead, blocks, processId,
                                         spaceRequested, algo)
    IN  /\ r.dummyHead.availableSpace >= 0 - MaxDeficit_part001
        /\ Apply(r)
        /\ UNCHANGED <<compactions, nonPositive>>

\* RL <ProcessID>
releaseMemory_part001(processId) ==
    /\ Apply(releaseMemoryResult_part001(dummyHead, blocks, processId))
    /\ UNCHANGED <<compactions, nonPositive>>

\* C: a killed process reads no further command.
compactMemory_part001 ==
    LET r == compactMemoryResult_part001(dummyHead, blocks)
    IN  /\ r.output # "Segmentation fault"
        /\ Apply(r)
        /\ UNCHANGED <<compactions, nonPositive>>

\* STAT
reportStatus_part001 ==
    /\ Apply(reportStatusResult_part001(dummyHead, blocks))
    /\ UNCHANGED <<compactions, nonPositive>>

InitWith_part001(initialMemorySize) ==
    LET initialMemory == initialMemorySize - 1
    IN  /\ initialMemory > 0
        /\ dummyHead = [processId |-> DUMMY_LABEL, availableSpace |-> initialMemory]
        \* availableSpace = endAddress - startAddress
        /\ blocks = <<Node(FREE_LABEL, 0, initialMemory, initialMemory - 0)>>
        /\ lastAddressSpace = initialMemory
        /\ compactions = 0
        /\ nonPositive = 0

Init_part001 ==
    \E initialMemorySize \in 1..MaxMem_part001 : InitWith_part001(initialMemorySize)

RQ_part001 ==
    \E p \in Pids, s \in Sizes, a \in Algos : requestMemory_part001(p, s, a)

RL_part001 == \E p \in Pids : releaseMemory_part001(p)

C_part001 == compactMemory_part001

STAT_part001 == reportStatus_part001

Next_part001 == RQ_part001 \/ RL_part001 \/ C_part001 \/ STAT_part001

Spec_part001 == Init_part001 /\ [][Next_part001]_vars

\* Sessions of RQ, RL and STAT commands only.
NextNoCompact_part001 == RQ_part001 \/ RL_part001 \/ STAT_part001

SpecNoCompact_part001 == Init_part001 /\ [][NextNoCompact_part001]_vars

Compacted_part001 == compactMemoryResult_part001(dummyHead, blocks)

(***************************************************************************)
(* C31 -- Swap-based compaction variant: in every state reachable by RQ    *)
(* and RL commands, compactMemory completes normally (it never calls       *)
(* swapNodes on a block that has no successor; the walk ends), and in the  *)
(* list it leaves no FREE block is immediately followed by an occupied     *)
(* block.                                                                  *)
(***************************************************************************)
C31_SwapCompactionCompletes ==
    /\ Compacted_part001.output # "Segmentation fault"
    /\ \A k \in 1..(Len(Compacted_part001.blocks) - 1) :
          ~(/\ IsFree(Compacted_part001.blocks[k])
            /\ IsOccupied(Compacted_part001.blocks[k + 1]))

(***************************************************************************)
(* C39 -- Release keeps other processes (swap-based variant): a successful *)
(* releaseMemory(pid) removes no block of another process and changes no   *)
(* owner: every other process that owned a block before still owns a block *)
(* of the same size after, and the accumulator grows by exactly the size   *)
(* of the released block.                                                  *)
(***************************************************************************)
C39_ReleaseKeepsOthers ==
    \A p \in Owners(blocks) :
        LET i   == findProcess(blocks, 1, p)
            res == releaseMemoryResult_part001(dummyHead, blocks, p)
        IN  /\ OwnerSizes(res.blocks) = OwnerSizes(RemoveAt(blocks, i))
            /\ res.dummyHead.availableSpace
                 = dummyHead.availableSpace + blocks[i].availableSpace

====
